---- MODULE Spec2Model ----
(***************************************************************************)
(* Review trend agent: the topic consolidation agent (variant -> canonical *)
(* taxonomy, oracle-driven grouping with fallback) and the batch processor *)
(* (daily counts, trend window, persisted state).                          *)
(*                                                                         *)
(* The consolidation oracle (an LLM call) is an input of every operation   *)
(* that reaches it: a script saying how many calls fail in transport and   *)
(* what document the oracle returns once it answers.                       *)
(***************************************************************************)
EXTENDS Integers, Sequences, FiniteSets, TLC

VARIABLES
    topic_taxonomy,       \* TopicConsolidationAgent.topic_taxonomy: variant -> canonical
    consolidated_topics,  \* BatchProcessor.consolidated_topics: list of groups
    daily_topic_counts,   \* BatchProcessor.daily_topic_counts: date -> topic -> count
    all_extractions,      \* BatchProcessor.all_extractions (its length)
    state_file,           \* output/processor_state.json (NoFile when absent)
    last,                 \* the last call: operation, arguments, returned value
    ops                   \* number of calls made so far

vars == <<topic_taxonomy, consolidated_topics, daily_topic_counts,
          all_extractions, state_file, last, ops>>

----------------------------------------------------------------------------
(* Bounds of the model *)

MaxGroups == 2        \* groups in one oracle document
MaxVariants == 2      \* variants listed in one group
MaxTopicsIn == 2      \* length of a topic list handed to consolidate_topics
MaxExisting == 2      \* existing groups handed to incremental_consolidation
MaxOps == 2           \* calls made on one processor
MaxReviews == 2       \* extractions of one daily batch
MaxDays == 3          \* length of a trend window
MaxCount == 2         \* a stored count of the drawn count tables
MaxReviewTopics == 2  \* topics of one extraction in the counting runs
MaxResumeOps == 3     \* calls made in the runs that save and resume
MaxBatches == 2       \* daily batches of the runs that only process batches
MaxFiles == 3         \* batch files handed to process_multiple_batches
MaxCalls == 2         \* calls of one run of the processor and its agent
MaxSent == 3          \* reviews handed to extract_topics
MaxEntries == 3       \* entries of one reply of the labeling oracle

(* Program constants *)

MAX_RETRIES == 3

TREND_WINDOW_DAYS == 31

----------------------------------------------------------------------------
(* Topic strings.  TopicOrder is their order under Python's sorted(). *)

TopicOrder ==
    <<"A", "B", "C", "Delivery guy rude", "Delivery partner impolite",
      "Delivery partner rude", "Food arrived cold">>

Range(s) == {s[i] : i \in 1..Len(s)}

\* The topic strings the drawn inputs are made of.
Topics == {"A", "B", "C"}

\* The value of group['canonical_name'] when the group has no such key.
NoName == "<missing>"

EmptyMap == [t \in {} |-> t]

SeqsUpTo(S, n) == UNION {[1..k -> S] : k \in 0..n}

\* Every reordering of a sequence.
Reorderings(s) ==
    {[i \in 1..Len(s) |-> s[f[i]]] : f \in Permutations(1..Len(s))}

----------------------------------------------------------------------------
(* TopicConsolidationAgent *)

\* sorted(list(set(topics)))
SortedUnique(topics) == SelectSeq(TopicOrder, LAMBDA t : t \in Range(topics))

SingletonGroup(topic) ==
    [canonical_name |-> topic, variants |-> <<topic>>, category |-> "issue"]

\* The except branch's group list: one group per unique topic, in order.
FallbackGroups(unique_topics) ==
    [i \in 1..Len(unique_topics) |-> SingletonGroup(unique_topics[i])]

\* Variant of WriteVariants that keeps an entry already present (setdefault).
RECURSIVE WriteVariantsKeep(_, _, _)
WriteVariantsKeep(tax, variants, canonical) ==
    IF variants = <<>> THEN tax
    ELSE LET v == Head(variants)
             written == [t \in DOMAIN tax \cup {v} |->
                            IF t \in DOMAIN tax THEN tax[t] ELSE canonical]
         IN WriteVariantsKeep(written, Tail(variants), canonical)

\* for variant in variants: self.topic_taxonomy[variant] = canonical
RECURSIVE WriteVariants(_, _, _)
WriteVariants(tax, variants, canonical) ==
    IF variants = <<>> THEN tax
    ELSE LET v == Head(variants)
             written == [t \in DOMAIN tax \cup {v} |->
                            IF t = v THEN canonical ELSE tax[t]]
         IN WriteVariants(written, Tail(variants), canonical)

\* _update_taxonomy: groups in order; a group without 'canonical_name' raises
\* KeyError and leaves the writes made so far in place.
RECURSIVE update_taxonomy(_, _)
update_taxonomy(tax, groups) ==
    IF groups = <<>> THEN [tax |-> tax, raised |-> FALSE]
    ELSE LET g == Head(groups) IN
         IF g.canonical_name = NoName
         THEN [tax |-> tax, raised |-> TRUE]
         ELSE update_taxonomy(WriteVariants(tax, g.variants, g.canonical_name),
                              Tail(groups))

\* Variant of map_to_canonical that ignores the taxonomy.
map_to_canonical_unmapped(tax, topic) == topic

\* Variant of map_to_canonical that follows the mapping a second step.
map_to_canonical_chained(tax, topic) ==
    IF topic \in DOMAIN tax
    THEN IF tax[topic] \in DOMAIN tax THEN tax[tax[topic]] ELSE tax[topic]
    ELSE topic

map_to_canonical(tax, topic) ==
    IF topic \in DOMAIN tax THEN tax[topic] ELSE topic

\* The oracle's answer to the attempt-th call under a script.
ErrorReply == [kind |-> "error", groups |-> <<>>]

ReplyAt(script, attempt) ==
    IF attempt <= script.down THEN ErrorReply ELSE script.reply

\* Variant of ConsolidateBody that short-circuits only the empty input.
ConsolidateBodyEager(tax, topics, reply) ==
    LET unique_topics == SortedUnique(topics) IN
    IF Len(unique_topics) < 1
    THEN [groups |-> <<>>,
          tax |-> tax, calls |-> 0, outcome |-> "short", raised |-> FALSE]
    ELSE IF reply.kind = "error"
    THEN [groups |-> FallbackGroups(unique_topics),
          tax |-> tax, calls |-> 1, outcome |-> "fallback", raised |-> FALSE]
    ELSE LET u == update_taxonomy(tax, reply.groups) IN
         IF u.raised
         THEN [groups |-> FallbackGroups(unique_topics),
               tax |-> u.tax, calls |-> 1, outcome |-> "fallback",
               raised |-> FALSE]
         ELSE [groups |-> reply.groups,
               tax |-> u.tax, calls |-> 1, outcome |-> "ok", raised |-> FALSE]

\* The body of consolidate_topics: one pass through the function.  Every
\* exception of the try block is caught, so the body itself never raises.
ConsolidateBody(tax, topics, reply) ==
    LET unique_topics == SortedUnique(topics) IN
    IF Len(unique_topics) <= 1
    THEN [groups |-> IF unique_topics = <<>> THEN <<>>
                     ELSE <<SingletonGroup(unique_topics[1])>>,
          tax |-> tax, calls |-> 0, outcome |-> "short", raised |-> FALSE]
    ELSE IF reply.kind = "error"
    THEN [groups |-> FallbackGroups(unique_topics),
          tax |-> tax, calls |-> 1, outcome |-> "fallback", raised |-> FALSE]
    ELSE LET u == update_taxonomy(tax, reply.groups) IN
         IF u.raised
         THEN [groups |-> FallbackGroups(unique_topics),
               tax |-> u.tax, calls |-> 1, outcome |-> "fallback",
               raised |-> FALSE]
         ELSE [groups |-> reply.groups,
               tax |-> u.tax, calls |-> 1, outcome |-> "ok", raised |-> FALSE]

\* @retry(stop=stop_after_attempt(MAX_RETRIES)): call the body again while it
\* raises and attempts remain.
RECURSIVE Retrying(_, _, _, _)
Retrying(tax, topics, script, attempt) ==
    LET r == ConsolidateBody(tax, topics, ReplyAt(script, attempt)) IN
    IF r.raised /\ attempt < MAX_RETRIES
    THEN LET n == Retrying(r.tax, topics, script, attempt + 1)
         IN [n EXCEPT !.calls = @ + r.calls]
    ELSE r

\* Variant of consolidate_topics that rebuilds the taxonomy from the reply.
consolidate_topics_fresh(tax, topics, script) == Retrying(EmptyMap, topics, script, 1)

consolidate_topics(tax, topics, script) == Retrying(tax, topics, script, 1)

\* Variant of TrulyNew without the test against the existing names.
RECURSIVE TrulyNewAnyName(_, _, _)
TrulyNewAnyName(groups, existing_names, new_topics) ==
    IF groups = <<>> THEN <<>>
    ELSE LET g == Head(groups)
             variants_in_new ==
                 SelectSeq(g.variants, LAMBDA v : v \in Range(new_topics))
             rest == TrulyNewAnyName(Tail(groups), existing_names, new_topics)
         IN IF variants_in_new # <<>>
            THEN <<g.canonical_name>> \o rest
            ELSE rest

\* The truly_new loop of incremental_consolidation, over the returned groups.
RECURSIVE TrulyNew(_, _, _)
TrulyNew(groups, existing_names, new_topics) ==
    IF groups = <<>> THEN <<>>
    ELSE LET g == Head(groups)
             variants_in_new ==
                 SelectSeq(g.variants, LAMBDA v : v \in Range(new_topics))
             rest == TrulyNew(Tail(groups), existing_names, new_topics)
         IN IF g.canonical_name \notin Range(existing_names)
               /\ variants_in_new # <<>>
            THEN <<g.canonical_name>> \o rest
            ELSE rest

ExistingNames(existing) ==
    [i \in 1..Len(existing) |-> existing[i].canonical_name]

incremental_consolidation(tax, new_topics, existing, script) ==
    LET existing_names == ExistingNames(existing)
        all_topics == existing_names \o new_topics
        c == consolidate_topics(tax, all_topics, script)
    IN [groups |-> c.groups,
        truly_new |-> TrulyNew(c.groups, existing_names, new_topics),
        tax |-> c.tax, calls |-> c.calls, outcome |-> c.outcome]

----------------------------------------------------------------------------
(* Calendar dates.  A date string "2024-mm-dd" is the pair <<mm, dd>>; a    *)
(* datetime is the day's ordinal within 2024.                               *)

DaysInMonth == <<31, 29, 31, 30, 31, 30, 31, 31, 30, 31, 30, 31>>

RECURSIVE DaysBeforeMonth(_)
DaysBeforeMonth(m) ==
    IF m = 1 THEN 0 ELSE DaysBeforeMonth(m - 1) + DaysInMonth[m - 1]

\* datetime.strptime(s, "%Y-%m-%d")
Strptime(s) == DaysBeforeMonth(s[1]) + s[2]

\* d.strftime("%Y-%m-%d")
RECURSIVE StrftimeFrom(_, _)
StrftimeFrom(n, m) ==
    IF n <= DaysInMonth[m] THEN <<m, n>>
    ELSE StrftimeFrom(n - DaysInMonth[m], m + 1)

Strftime(n) == StrftimeFrom(n, 1)

----------------------------------------------------------------------------
(* BatchProcessor *)

\* get_all_unique_topics: sorted(set of every topic of every extraction)
RECURSIVE Flatten(_)
Flatten(extractions) ==
    IF extractions = <<>> THEN <<>>
    ELSE Head(extractions) \o Flatten(Tail(extractions))

get_all_unique_topics(extractions) == SortedUnique(Flatten(extractions))

\* Variant of Increment that raises the topic's count on every stored date
\* that has the topic.
IncrementEveryDate(counts, date, topic) ==
    LET Day(d) == IF d \in DOMAIN counts THEN counts[d] ELSE EmptyMap
        Bumped(d) == [t \in DOMAIN Day(d) \cup (IF d = date THEN {topic} ELSE {}) |->
                        IF t = topic
                        THEN (IF t \in DOMAIN Day(d) THEN Day(d)[t] ELSE 0) + 1
                        ELSE Day(d)[t]]
    IN [d \in DOMAIN counts \cup {date} |-> Bumped(d)]

\* self.daily_topic_counts[date][canonical_topic] += 1 on the defaultdicts
Increment(counts, date, topic) ==
    LET day == IF date \in DOMAIN counts THEN counts[date] ELSE EmptyMap
        n == IF topic \in DOMAIN day THEN day[topic] ELSE 0
        bumped == [t \in DOMAIN day \cup {topic} |->
                      IF t = topic THEN n + 1 ELSE day[t]]
    IN [d \in DOMAIN counts \cup {date} |->
           IF d = date THEN bumped ELSE counts[d]]

\* Variant of CountTopics that counts only an extraction's first topic.
CountTopicsFirst(counts, date, tax, topics) ==
    IF topics = <<>> THEN counts
    ELSE Increment(counts, date, map_to_canonical(tax, Head(topics)))

\* Variant of CountTopics that counts a topic once per extraction.
RECURSIVE CountTopicsOnce(_, _, _, _)
CountTopicsOnce(counts, date, tax, topics) ==
    IF topics = <<>> THEN counts
    ELSE CountTopicsOnce(
             Increment(counts, date, map_to_canonical(tax, Head(topics))),
             date, tax,
             SelectSeq(Tail(topics), LAMBDA t : t # Head(topics)))

\* Step 4: for extraction in extractions: for topic in extraction['topics']
RECURSIVE CountTopics(_, _, _, _)
CountTopics(counts, date, tax, topics) ==
    IF topics = <<>> THEN counts
    ELSE CountTopics(Increment(counts, date, map_to_canonical(tax, Head(topics))),
                     date, tax, Tail(topics))

RECURSIVE CountExtractions(_, _, _, _)
CountExtractions(counts, date, tax, extractions) ==
    IF extractions = <<>> THEN counts
    ELSE CountExtractions(CountTopics(counts, date, tax, Head(extractions)),
                          date, tax, Tail(extractions))

\* dict(self.daily_topic_counts[date]) in the returned summary: reading the
\* defaultdict creates the date's entry when it has none.
ReadDay(counts, date) ==
    [d \in DOMAIN counts \cup {date} |->
        IF d \in DOMAIN counts THEN counts[d] ELSE EmptyMap]

\* Variant of process_daily_batch that counts before it consolidates.
count_then_consolidate(tax, groups, counts, date, extractions, update, script) ==
    LET unique_topics == get_all_unique_topics(extractions)
        consolidate == update /\ unique_topics # <<>>
        r == incremental_consolidation(tax, unique_topics, groups, script)
        counted == CountExtractions(counts, date, tax, extractions)
    IN [tax |-> IF consolidate THEN r.tax ELSE tax,
        groups |-> IF consolidate THEN r.groups ELSE groups,
        counts |-> ReadDay(counted, date),
        consolidated |-> consolidate,
        outcome |-> IF consolidate THEN r.outcome ELSE "skipped",
        calls |-> IF consolidate THEN r.calls ELSE 0,
        all_topics |-> IF consolidate THEN ExistingNames(groups) \o unique_topics
                       ELSE <<>>,
        truly_new |-> IF consolidate THEN r.truly_new ELSE <<>>]

\* process_daily_batch, as a function of the processor's fields.
process_daily_batch(tax, groups, counts, date, extractions, update, script) ==
    LET unique_topics == get_all_unique_topics(extractions)
        consolidate == update /\ unique_topics # <<>>
        r == incremental_consolidation(tax, unique_topics, groups, script)
        tax2 == IF consolidate THEN r.tax ELSE tax
        groups2 == IF consolidate THEN r.groups ELSE groups
        counted == CountExtractions(counts, date, tax2, extractions)
    IN [tax |-> tax2,
        groups |-> groups2,
        counts |-> ReadDay(counted, date),
        consolidated |-> consolidate,
        outcome |-> IF consolidate THEN r.outcome ELSE "skipped",
        calls |-> IF consolidate THEN r.calls ELSE 0,
        all_topics |-> IF consolidate THEN ExistingNames(groups) \o unique_topics
                       ELSE <<>>,
        truly_new |-> IF consolidate THEN r.truly_new ELSE <<>>]

\* The while loop of get_trend_data: every date string from current to end.
RECURSIVE DateRange(_, _)
DateRange(current, end) ==
    IF current <= end THEN <<Strftime(current)>> \o DateRange(current + 1, end)
    ELSE <<>>

\* Variant of get_trend_data whose window starts one day early.
get_trend_data_early(counts, end_date, days) ==
    LET end == Strptime(end_date)
        start == end - days
        date_range == DateRange(start, end)
        Day(date) == IF date \in DOMAIN counts THEN counts[date] ELSE EmptyMap
        all_topics == UNION {DOMAIN Day(date) : date \in Range(date_range)}
    IN [topic \in all_topics |->
           [date \in Range(date_range) |->
               IF topic \in DOMAIN Day(date) THEN Day(date)[topic] ELSE 0]]

\* Variant of get_trend_data that lists every topic ever counted.
get_trend_data_all(counts, end_date, days) ==
    LET end == Strptime(end_date)
        start == end - (days - 1)
        date_range == DateRange(start, end)
        Day(date) == IF date \in DOMAIN counts THEN counts[date] ELSE EmptyMap
        all_topics == UNION {DOMAIN counts[date] : date \in DOMAIN counts}
    IN [topic \in all_topics |->
           [date \in Range(date_range) |->
               IF topic \in DOMAIN Day(date) THEN Day(date)[topic] ELSE 0]]

get_trend_data(counts, end_date, days) ==
    LET end == Strptime(end_date)
        start == end - (days - 1)
        date_range == DateRange(start, end)
        Day(date) == IF date \in DOMAIN counts THEN counts[date] ELSE EmptyMap
        all_topics == UNION {DOMAIN Day(date) : date \in Range(date_range)}
    IN [topic \in all_topics |->
           [date \in Range(date_range) |->
               IF topic \in DOMAIN Day(date) THEN Day(date)[topic] ELSE 0]]

\* json.dump of a dictionary: the object's members, <<key, value>>, one per
\* key, in the order `keys` lists them.
DumpObject(f, keys) ==
    LET present == SelectSeq(keys, LAMBDA k : k \in DOMAIN f)
    IN [i \in 1..Len(present) |-> <<present[i], f[present[i]]>>]

\* json.load of an object: a dictionary of its members' keys, each with the
\* value of the last member of that key.
LoadObject(members) ==
    [k \in {members[i][1] : i \in 1..Len(members)} |->
        LET at == CHOOSE i \in 1..Len(members) :
                      /\ members[i][1] = k
                      /\ \A j \in (i + 1)..Len(members) : members[j][1] # k
        IN members[at][2]]

\* The date strings of 2024, in calendar order.
DateOrder == [n \in 1..366 |-> Strftime(n)]

\* {date: dict(counts) for date, counts in self.daily_topic_counts.items()}
DumpCounts(counts) ==
    DumpObject([d \in DOMAIN counts |-> DumpObject(counts[d], TopicOrder)],
               DateOrder)

\* save_state: the JSON document written to the state file, as the members
\* of its root object.
StateDocument(groups, tax, counts, extractions) ==
    [exists |-> TRUE,
     parses |-> TRUE,
     doc |-> <<<<"consolidated_topics", groups>>,
               <<"topic_taxonomy", DumpObject(tax, TopicOrder)>>,
               <<"daily_topic_counts", DumpCounts(counts)>>,
               <<"total_extractions", extractions>>>>]

\* The state file before anything was saved, and a file that is not JSON.
NoFile == [exists |-> FALSE, parses |-> FALSE, doc |-> <<>>]

Unparseable == [exists |-> TRUE, parses |-> FALSE, doc |-> <<>>]

\* state.get(key, default) on the loaded root object
StateGet(doc, key, default) ==
    IF \E i \in 1..Len(doc) : doc[i][1] = key
    THEN doc[CHOOSE i \in 1..Len(doc) :
                 /\ doc[i][1] = key
                 /\ \A j \in (i + 1)..Len(doc) : doc[j][1] # key][2]
    ELSE default

\* for date, counts in ...items(): self.daily_topic_counts[date] =
\* defaultdict(int, counts): the counts of every date of the document
\* replace that date's.
RestoreCounts(counts, loaded) ==
    [d \in DOMAIN counts \cup DOMAIN loaded |->
        IF d \in DOMAIN loaded THEN LoadObject(loaded[d]) ELSE counts[d]]

\* Variant of load_state that restores no taxonomy.
load_state_counts_only(file, tax, groups, counts) ==
    IF ~file.exists \/ ~file.parses
    THEN [raised |-> TRUE, tax |-> tax, groups |-> groups, counts |-> counts]
    ELSE [raised |-> FALSE,
          tax |-> EmptyMap,
          groups |-> StateGet(file.doc, "consolidated_topics", <<>>),
          counts |-> RestoreCounts(counts, LoadObject(
                         StateGet(file.doc, "daily_topic_counts", <<>>)))]

\* load_state: open() raises on a missing file and json.load on a file that
\* is not JSON, before anything is assigned; an absent key reads as empty.
load_state(file, tax, groups, counts) ==
    IF ~file.exists \/ ~file.parses
    THEN [raised |-> TRUE, tax |-> tax, groups |-> groups, counts |-> counts]
    ELSE [raised |-> FALSE,
          tax |-> LoadObject(StateGet(file.doc, "topic_taxonomy", <<>>)),
          groups |-> StateGet(file.doc, "consolidated_topics", <<>>),
          counts |-> RestoreCounts(counts, LoadObject(
                         StateGet(file.doc, "daily_topic_counts", <<>>)))]

----------------------------------------------------------------------------
(* ReportGenerator.  trend_data is the list of its items, <<topic,          *)
(* date_counts>>, in the order the dictionary yields them.  A column name   *)
(* ("%b %d" of the date) is the date's <<month, day>>.                      *)

RECURSIVE Sum(_)
Sum(counts) == IF counts = <<>> THEN 0 ELSE Head(counts) + Sum(Tail(counts))

\* counts[-k:] and counts[-hi:-lo] of a list of n >= hi elements
LastSlice(counts, k) == SubSeq(counts, Len(counts) - k + 1, Len(counts))

MidSlice(counts, hi, lo) ==
    SubSeq(counts, Len(counts) - hi + 1, Len(counts) - lo)

NoLabel == [kind |-> "-", sign |-> "", tenths |-> 0]

NewLabel == [kind |-> "NEW", sign |-> "", tenths |-> 0]

\* f"{trend_pct:+.1f}%": the sign and the value in tenths, rounded half even.
PercentLabel(recent, previous) ==
    LET n == IF recent >= previous THEN 1000 * (recent - previous)
             ELSE 1000 * (previous - recent)
        f == n \div previous
        rem == n % previous
        up == 2 * rem > previous \/ (2 * rem = previous /\ f % 2 = 1)
    IN [kind |-> "pct",
        sign |-> IF recent >= previous THEN "+" ELSE "-",
        tenths |-> IF up THEN f + 1 ELSE f]

\* Variant of TrendLabel that reports a quiet fortnight as NEW.
TrendLabelQuietNew(counts) ==
    IF Len(counts) >= 14
    THEN LET recent == Sum(LastSlice(counts, 7))
             previous == Sum(MidSlice(counts, 14, 7))
         IN IF previous > 0 THEN PercentLabel(recent, previous)
            ELSE NewLabel
    ELSE NoLabel

\* The averages recent_avg and previous_avg are sum / 7: each is positive
\* exactly when its sum is, and their ratio is the ratio of the sums.
TrendLabel(counts) ==
    IF Len(counts) >= 14
    THEN LET recent == Sum(LastSlice(counts, 7))
             previous == Sum(MidSlice(counts, 14, 7))
         IN IF previous > 0 THEN PercentLabel(recent, previous)
            ELSE IF recent > 0 THEN NewLabel ELSE NoLabel
    ELSE NoLabel

\* date_counts.get(date, 0)
GetCount(date_counts, date) ==
    IF date \in DOMAIN date_counts THEN date_counts[date] ELSE 0

TableRow(item, date_range) ==
    LET counts == [i \in 1..Len(date_range) |-> GetCount(item[2], date_range[i])]
    IN [Topic |-> item[1],
        cols |-> [date \in Range(date_range) |-> GetCount(item[2], date)],
        Total |-> Sum(counts),
        Trend |-> TrendLabel(counts)]

\* table_data of generate_trend_table: one row per item, in item order.
TableData(trend_data, target_date, days) ==
    LET end_date == Strptime(target_date)
        date_range == DateRange(end_date - (days - 1), end_date)
    IN [i \in 1..Len(trend_data) |-> TableRow(trend_data[i], date_range)]

\* df.sort_values('Total', ascending=False) with the default kind
\* ('quicksort', which is not a stable sort): the rows in any order that is
\* non-increasing in Total.
SortValues(rows) ==
    {sorted \in Reorderings(rows) :
        \A i \in 1..(Len(sorted) - 1) : sorted[i].Total >= sorted[i + 1].Total}

\* generate_trend_table: the frames it can return.  A frame built from no
\* row has no 'Total' column and sort_values raises KeyError.
generate_trend_table(trend_data, target_date, days) ==
    IF trend_data = <<>> THEN {[raised |-> TRUE, rows |-> <<>>]}
    ELSE {[raised |-> FALSE, rows |-> sorted] :
             sorted \in SortValues(TableData(trend_data, target_date, days))}

----------------------------------------------------------------------------
(* Inputs *)

MalformedGroup == [canonical_name |-> NoName, variants |-> <<>>, category |-> "request"]

OracleGroup(name, variants) ==
    [canonical_name |-> name, variants |-> variants, category |-> "request"]

JsonReply(groups) == [kind |-> "json", groups |-> groups]

\* The oracle fails in transport for the first `down` calls.
FailingScripts == {[down |-> k, reply |-> JsonReply(<<>>)] : k \in 1..MAX_RETRIES}

Answering(groups) == [down |-> 0, reply |-> JsonReply(groups)]

\* A grouping of the requested topics: the topics of M merged under `name`,
\* every other topic alone; and the same document cut short by a group that
\* lacks its canonical_name.
Merged(name, M, unique_topics) ==
    LET others == SelectSeq(unique_topics, LAMBDA t : t \notin M)
    IN <<OracleGroup(name, SelectSeq(unique_topics, LAMBDA t : t \in M))>>
       \o [i \in 1..Len(others) |-> OracleGroup(others[i], <<others[i]>>)]

Groupings(unique_topics) ==
    UNION {{Merged(name, M, unique_topics),
            <<Head(Merged(name, M, unique_topics)), MalformedGroup>>} :
           <<name, M>> \in Topics \X (SUBSET Range(unique_topics) \ {{}})}

\* The scripts that matter for a request: none when the oracle is not called.
BatchScripts(all_topics) ==
    LET unique_topics == SortedUnique(all_topics) IN
    IF Len(unique_topics) <= 1 THEN {Answering(<<>>)}
    ELSE FailingScripts \cup {Answering(g) : g \in Groupings(unique_topics)}

\* One review's topic list: at most one topic in the processor's runs.
ReviewTopics == SeqsUpTo(Topics, 1)

BatchExtractions == SeqsUpTo(ReviewTopics, MaxReviews)

BatchDates == {<<2, 29>>, <<3, 1>>}

EndDates == {<<2, 29>>, <<3, 1>>, <<3, 2>>}

----------------------------------------------------------------------------
(* The processor as a state machine *)

NoCall == [op |-> "none"]

Init ==
    /\ topic_taxonomy = EmptyMap
    /\ consolidated_topics = <<>>
    /\ daily_topic_counts = EmptyMap
    /\ all_extractions = 0
    /\ state_file = NoFile
    /\ last = NoCall
    /\ ops = 0

ProcessDailyBatch(date, extractions, update, script) ==
    \E r \in {process_daily_batch(topic_taxonomy, consolidated_topics,
                                  daily_topic_counts, date, extractions,
                                  update, script)} :
       /\ topic_taxonomy' = r.tax
       /\ consolidated_topics' = r.groups
       /\ daily_topic_counts' = r.counts
       /\ all_extractions' = all_extractions + Len(extractions)
       /\ last' = [op |-> "process_daily_batch", date |-> date,
                   extractions |-> extractions,
                   existing_names |-> ExistingNames(consolidated_topics),
                   new_topics |-> get_all_unique_topics(extractions),
                   consolidated |-> r.consolidated, outcome |-> r.outcome,
                   calls |-> r.calls, truly_new |-> r.truly_new]
       /\ ops' = ops + 1
       /\ UNCHANGED state_file

GetTrendData(end_date, days) ==
    /\ last' = [op |-> "get_trend_data", end_date |-> end_date, days |-> days,
                ret |-> get_trend_data(daily_topic_counts, end_date, days)]
    /\ ops' = ops + 1
    /\ UNCHANGED <<topic_taxonomy, consolidated_topics, daily_topic_counts,
                   all_extractions, state_file>>

MapToCanonical(topic) ==
    /\ last' = [op |-> "map_to_canonical", topic |-> topic,
                ret |-> map_to_canonical(topic_taxonomy, topic)]
    /\ ops' = ops + 1
    /\ UNCHANGED <<topic_taxonomy, consolidated_topics, daily_topic_counts,
                   all_extractions, state_file>>

SaveState ==
    /\ state_file' = StateDocument(consolidated_topics, topic_taxonomy,
                                   daily_topic_counts, all_extractions)
    /\ last' = [op |-> "save_state"]
    /\ ops' = ops + 1
    /\ UNCHANGED <<topic_taxonomy, consolidated_topics, daily_topic_counts,
                   all_extractions>>

LoadState ==
    \E r \in {load_state(state_file, topic_taxonomy, consolidated_topics,
                         daily_topic_counts)} :
       /\ consolidated_topics' = r.groups
       /\ topic_taxonomy' = r.tax
       /\ daily_topic_counts' = r.counts
       /\ last' = [op |-> "load_state", raised |-> r.raised]
       /\ ops' = ops + 1
       /\ UNCHANGED <<all_extractions, state_file>>

Batch ==
    /\ ops < MaxOps
    /\ \E date \in BatchDates, extractions \in BatchExtractions :
        \/ \E script \in BatchScripts(ExistingNames(consolidated_topics)
                                      \o get_all_unique_topics(extractions)) :
               ProcessDailyBatch(date, extractions, TRUE, script)
        \/ ProcessDailyBatch(date, extractions, FALSE, Answering(<<>>))

Queries == \E end_date \in EndDates, days \in 1..MaxDays : GetTrendData(end_date, days)

Trend == ops < MaxOps /\ Queries

Lookup == ops < MaxOps /\ \E topic \in Topics : MapToCanonical(topic)

Save == ops < MaxOps /\ SaveState

Load == ops < MaxOps /\ LoadState

Next == Batch \/ Trend \/ Lookup \/ Save \/ Load

Spec == Init /\ [][Next]_vars

----------------------------------------------------------------------------
(* The consolidation agent alone: one call on an agent whose taxonomy is    *)
(* any mapping earlier consolidations can have left.                        *)

Taxonomies == UNION {[D -> Topics] : D \in SUBSET Topics}

OracleGroups ==
    {OracleGroup(name, variants) :
        name \in Topics, variants \in SeqsUpTo(Topics, MaxVariants)}
    \cup {MalformedGroup}

OracleDocuments == SeqsUpTo(OracleGroups, MaxGroups)

AgentScripts(topics) ==
    IF Len(SortedUnique(topics)) <= 1 THEN {Answering(<<>>)}
    ELSE FailingScripts \cup {Answering(g) : g \in OracleDocuments}

TopicLists == SeqsUpTo(Topics, MaxTopicsIn)

InitAgent ==
    /\ topic_taxonomy \in Taxonomies
    /\ consolidated_topics = <<>>
    /\ daily_topic_counts = EmptyMap
    /\ all_extractions = 0
    /\ state_file = NoFile
    /\ last = NoCall
    /\ ops = 0

ConsolidateTopics(topics, script) ==
    \E r \in {consolidate_topics(topic_taxonomy, topics, script)} :
       /\ topic_taxonomy' = r.tax
       /\ last' = [op |-> "consolidate_topics", topics |-> topics,
                   down |-> script.down, sent |-> script.reply.groups,
                   groups |-> r.groups, calls |-> r.calls,
                   outcome |-> r.outcome]
       /\ ops' = ops + 1
       /\ UNCHANGED <<consolidated_topics, daily_topic_counts,
                      all_extractions, state_file>>

Consolidate ==
    /\ ops < 1
    /\ \E topics \in TopicLists :
          \E script \in AgentScripts(topics) : ConsolidateTopics(topics, script)

LookupOnce == ops < 1 /\ \E topic \in Topics : MapToCanonical(topic)

NextAgent == Consolidate \/ LookupOnce

SpecAgent == InitAgent /\ [][NextAgent]_vars

----------------------------------------------------------------------------
(* incremental_consolidation alone: one call on a fresh agent.              *)

ExistingLists == SeqsUpTo({SingletonGroup(t) : t \in Topics}, MaxExisting)

IncrementalConsolidation(new_topics, existing, script) ==
    \E r \in {incremental_consolidation(topic_taxonomy, new_topics, existing,
                                        script)} :
       /\ topic_taxonomy' = r.tax
       /\ last' = [op |-> "incremental_consolidation",
                   new_topics |-> new_topics,
                   existing_names |-> ExistingNames(existing),
                   groups |-> r.groups, truly_new |-> r.truly_new,
                   calls |-> r.calls, outcome |-> r.outcome]
       /\ ops' = ops + 1
       /\ UNCHANGED <<consolidated_topics, daily_topic_counts,
                      all_extractions, state_file>>

Incremental ==
    /\ ops < 1
    /\ \E new_topics \in TopicLists, existing \in ExistingLists :
          \E script \in AgentScripts(ExistingNames(existing) \o new_topics) :
              IncrementalConsolidation(new_topics, existing, script)

SpecIncremental == Init /\ [][Incremental]_vars

----------------------------------------------------------------------------
(* get_trend_data alone: one query on a processor whose counts are any      *)
(* table that counting batches can have built (every stored count >= 1).    *)

TableDates == {<<2, 28>>, <<2, 29>>, <<3, 1>>}

TableTopics == {"A", "B"}

DayCounts == UNION {[T -> 1..MaxCount] : T \in SUBSET TableTopics}

CountTables == UNION {[D -> DayCounts] : D \in SUBSET TableDates}

InitTrend ==
    /\ topic_taxonomy = EmptyMap
    /\ consolidated_topics = <<>>
    /\ daily_topic_counts \in CountTables
    /\ all_extractions = 0
    /\ state_file = NoFile
    /\ last = NoCall
    /\ ops = 0

TrendOnce == ops < 1 /\ Queries

SpecTrend == InitTrend /\ [][TrendOnce]_vars

----------------------------------------------------------------------------
(* Daily batches alone: a fresh processor fed one batch after another, for  *)
(* either date, with every reply the oracle can give.                       *)

DayExtractions == {<<<<"A">>>>, <<<<"B">>>>, <<<<"A">>, <<"B">>>>}

DayBatch ==
    /\ ops < MaxBatches
    /\ \E date \in BatchDates, extractions \in DayExtractions :
        \/ \E script \in BatchScripts(ExistingNames(consolidated_topics)
                                      \o get_all_unique_topics(extractions)) :
               ProcessDailyBatch(date, extractions, TRUE, script)
        \/ ProcessDailyBatch(date, extractions, FALSE, Answering(<<>>))

SpecDays == Init /\ [][DayBatch]_vars

----------------------------------------------------------------------------
(* TopicExtractionAgent.extract_topics: one call.  A review is its id, its  *)
(* content, its date and its score; the labeling oracle answers each        *)
(* request with a transport error, a text that is not JSON, or a JSON       *)
(* document: an array of entries, or an object holding the array under      *)
(* 'extractions', under 'topics' or under some other key.                   *)

\* text.strip(): blank text strips to the empty string
Strip(text) == IF text \in {"", " "} THEN "" ELSE text

NoReview == [review_id |-> 0, content |-> "", date |-> <<0, 0>>, score |-> 0]

\* for j, extraction in enumerate(extractions): if j < len(batch): ...
Annotate(extractions, batch) ==
    [j \in 1..Len(extractions) |->
        LET annotated == j <= Len(batch)
            review == IF annotated THEN batch[j] ELSE NoReview
        IN [review_index |-> extractions[j].review_index,
            topics |-> extractions[j].topics,
            annotated |-> annotated,
            review_id |-> review.review_id,
            review_content |-> review.content,
            review_date |-> review.date,
            review_score |-> review.score]]

\* for extraction in extractions: for topic in extraction.get('topics', []):
\* if topic not in existing_topics: existing_topics.append(topic)
RECURSIVE AppendNew(_, _)
AppendNew(existing_topics, topics) ==
    IF topics = <<>> THEN existing_topics
    ELSE AppendNew(IF Head(topics) \in Range(existing_topics)
                   THEN existing_topics
                   ELSE Append(existing_topics, Head(topics)),
                   Tail(topics))

\* The try block on one sub-batch: what it adds to all_extractions and what
\* it leaves in existing_topics.  Iterating an object without 'extractions'
\* and 'topics' yields its keys, and the first assignment to one raises
\* TypeError; every exception is caught and the sub-batch is given up.
LabelBatch(batch, reply, existing_topics) ==
    IF reply.kind # "json" \/ reply.wrap = "other"
    THEN [produced |-> <<>>, existing_topics |-> existing_topics]
    ELSE LET extractions == Annotate(reply.entries, batch)
         IN [produced |-> extractions,
             existing_topics |->
                 AppendNew(existing_topics,
                           Flatten([j \in 1..Len(extractions) |->
                                       extractions[j].topics]))]

\* review_texts: the reviews of the sub-batch whose text is sent, in order.
ReviewTexts(batch) == SelectSeq(batch, LAMBDA r : Strip(r.content) # "")

Min(a, b) == IF a <= b THEN a ELSE b

\* for i in range(0, len(reviews), batch_size), from 0-based offset i on;
\* `script` holds the oracle's replies to the requests still to come.
RECURSIVE ExtractFrom(_, _, _, _, _)
ExtractFrom(reviews, i, batch_size, existing_topics, script) ==
    IF i >= Len(reviews)
    THEN [extractions |-> <<>>, existing_topics |-> existing_topics,
          requests |-> <<>>]
    ELSE LET batch == SubSeq(reviews, i + 1, Min(i + batch_size, Len(reviews)))
             review_texts == ReviewTexts(batch)
         IN IF review_texts = <<>>
            THEN ExtractFrom(reviews, i + batch_size, batch_size,
                             existing_topics, script)
            ELSE LET r == LabelBatch(batch, Head(script), existing_topics)
                     rest == ExtractFrom(reviews, i + batch_size, batch_size,
                                         r.existing_topics, Tail(script))
                 IN [extractions |-> r.produced \o rest.extractions,
                     existing_topics |-> rest.existing_topics,
                     requests |-> <<[batch |-> batch,
                                     review_texts |-> review_texts,
                                     reply |-> Head(script),
                                     produced |-> r.produced]>>
                                      \o rest.requests]

\* No exception leaves the loop, so @retry never calls the body again.
extract_topics(reviews, batch_size, existing_topics, script) ==
    ExtractFrom(reviews, 0, batch_size, existing_topics, script)

Contents == {"", " ", "late"}

ReviewAt(i, content) ==
    [review_id |-> i, content |-> content, date |-> <<3, 1>>,
     score |-> IF content = "late" THEN 1 ELSE 5]

ReviewLists ==
    UNION {{[i \in 1..n |-> ReviewAt(i, contents[i])] :
               contents \in [1..n -> Contents]} : n \in 0..MaxSent}

\* 2 splits the reviews; 10 is what process_daily_batch passes.
BatchSizes == {2, 10}

\* The oracle numbers its entries in order and labels each with one topic.
EntryLists ==
    UNION {{[j \in 1..n |-> [review_index |-> j, topics |-> <<labels[j]>>]] :
               labels \in [1..n -> {"A", "B"}]} : n \in 0..MaxEntries}

Replies ==
    {[kind |-> "error", wrap |-> "array", entries |-> <<>>],
     [kind |-> "text", wrap |-> "array", entries |-> <<>>]}
    \cup [kind : {"json"}, wrap : {"array", "extractions", "topics", "other"},
          entries : EntryLists]

RECURSIVE Requests(_, _, _)
Requests(reviews, i, batch_size) ==
    IF i >= Len(reviews) THEN 0
    ELSE (IF ReviewTexts(SubSeq(reviews, i + 1,
                                Min(i + batch_size, Len(reviews)))) = <<>>
          THEN 0 ELSE 1)
         + Requests(reviews, i + batch_size, batch_size)

ExtractTopics(reviews, batch_size, existing_topics, script) ==
    \E r \in {extract_topics(reviews, batch_size, existing_topics, script)} :
       /\ last' = [op |-> "extract_topics", reviews |-> reviews,
                   batch_size |-> batch_size,
                   existing_topics |-> r.existing_topics,
                   extractions |-> r.extractions, requests |-> r.requests]
       /\ ops' = ops + 1
       /\ UNCHANGED <<topic_taxonomy, consolidated_topics, daily_topic_counts,
                      all_extractions, state_file>>

Extract ==
    /\ ops < 1
    /\ \E reviews \in ReviewLists, batch_size \in BatchSizes :
          \E script \in [1..Requests(reviews, 0, batch_size) -> Replies] :
             ExtractTopics(reviews, batch_size, <<>>, script)

SpecExtract == Init /\ [][Extract]_vars

----------------------------------------------------------------------------
(* One run of the processor and its agent: daily batches and direct         *)
(* consolidate_topics calls in any order, with every reply the oracle can   *)
(* give to each request.                                                    *)

RunBatch ==
    /\ ops < MaxCalls
    /\ \E date \in BatchDates, extractions \in DayExtractions :
        \/ \E script \in BatchScripts(ExistingNames(consolidated_topics)
                                      \o get_all_unique_topics(extractions)) :
               ProcessDailyBatch(date, extractions, TRUE, script)
        \/ ProcessDailyBatch(date, extractions, FALSE, Answering(<<>>))

RunConsolidate ==
    /\ ops < MaxCalls
    /\ \E topics \in TopicLists :
          \E script \in BatchScripts(topics) : ConsolidateTopics(topics, script)

NextRun == RunBatch \/ RunConsolidate

SpecRun == Init /\ [][NextRun]_vars

----------------------------------------------------------------------------
(* process_multiple_batches: one call on a fresh processor.  A batch file   *)
(* is the date of its name (reviews_YYYY-MM-DD.json), the extractions its   *)
(* reviews are labeled with, and what the consolidation oracle does on the  *)
(* day's request: fail, keep every topic alone, or merge all under "C".     *)

\* The characters of a date string that differ between dates of 2024: the
\* two digits of the month and the two of the day.
DateKey(date) ==
    <<date[1] \div 10, date[1] % 10, date[2] \div 10, date[2] % 10>>

\* a < b on strings of equal length
StringLess(a, b) ==
    \E i \in 1..Len(a) :
        /\ a[i] < b[i]
        /\ \A j \in 1..(i - 1) : a[j] = b[j]

RECURSIVE InsertFile(_, _)
InsertFile(sorted_files, file) ==
    IF sorted_files = <<>> THEN <<file>>
    ELSE IF StringLess(DateKey(file.date), DateKey(Head(sorted_files).date))
    THEN <<file>> \o sorted_files
    ELSE <<Head(sorted_files)>> \o InsertFile(Tail(sorted_files), file)

\* Variant of SortedFiles that keeps the order of the list.
SortedFilesAsGiven(batch_files) == batch_files

\* sorted(batch_files, key=lambda x: x.stem.split('_')[-1]): a stable sort
\* on the date strings.
RECURSIVE SortedFiles(_)
SortedFiles(batch_files) ==
    IF batch_files = <<>> THEN <<>>
    ELSE InsertFile(SortedFiles(SubSeq(batch_files, 1, Len(batch_files) - 1)),
                    batch_files[Len(batch_files)])

PolicyScript(policy, all_topics) ==
    LET unique_topics == SortedUnique(all_topics) IN
    IF policy = "fail" THEN [down |-> 1, reply |-> JsonReply(<<>>)]
    ELSE IF policy = "alone"
    THEN Answering([i \in 1..Len(unique_topics) |->
                       OracleGroup(unique_topics[i], <<unique_topics[i]>>)])
    ELSE Answering(Merged("C", Range(unique_topics), unique_topics))

\* The for loop of process_multiple_batches over the sorted files; `days`
\* records, per file, what its process_daily_batch call was given and left.
RECURSIVE RunBatches(_, _, _, _)
RunBatches(tax, groups, counts, files) ==
    IF files = <<>>
    THEN [tax |-> tax, groups |-> groups, counts |-> counts, days |-> <<>>]
    ELSE LET file == Head(files)
             all_topics == ExistingNames(groups)
                               \o get_all_unique_topics(file.extractions)
             r == process_daily_batch(tax, groups, counts, file.date,
                                      file.extractions, TRUE,
                                      PolicyScript(file.policy, all_topics))
             rest == RunBatches(r.tax, r.groups, r.counts, Tail(files))
         IN [rest EXCEPT !.days =
                <<[date |-> file.date, existing |-> groups,
                   consolidated |-> r.consolidated,
                   groups |-> r.groups, counts |-> r.counts]>> \o @]

process_multiple_batches(tax, groups, counts, batch_files) ==
    RunBatches(tax, groups, counts, SortedFiles(batch_files))

FileDates == {<<2, 29>>, <<3, 1>>, <<9, 30>>, <<10, 1>>}

FileExtractions == {<<>>, <<<<"A">>>>, <<<<"A">>, <<"B">>>>}

Policies == {"fail", "alone", "merge"}

\* A list of n files: the dates of their names, their labeled reviews and
\* the oracle's conduct on each day.
FileList(n, dates, labeled, policies) ==
    [i \in 1..n |-> [date |-> dates[i], extractions |-> labeled[i],
                     policy |-> policies[i]]]

ProcessMultipleBatches(batch_files) ==
    \E r \in {process_multiple_batches(topic_taxonomy, consolidated_topics,
                                        daily_topic_counts, batch_files)} :
       /\ topic_taxonomy' = r.tax
       /\ consolidated_topics' = r.groups
       /\ daily_topic_counts' = r.counts
       /\ all_extractions' = all_extractions
              + Len(Flatten([i \in 1..Len(batch_files) |->
                                batch_files[i].extractions]))
       /\ last' = [op |-> "process_multiple_batches",
                   batch_files |-> batch_files, days |-> r.days]
       /\ ops' = ops + 1
       /\ UNCHANGED state_file

\* The files of one call are files of different days.
MultipleBatches ==
    /\ ops < 1
    /\ \E n \in 0..MaxFiles :
          \E dates \in [1..n -> FileDates] :
             /\ \A i, j \in 1..n : i # j => dates[i] # dates[j]
             /\ \E labeled \in [1..n -> FileExtractions],
                   policies \in [1..n -> Policies] :
                   ProcessMultipleBatches(FileList(n, dates, labeled, policies))

SpecMultiple == Init /\ [][MultipleBatches]_vars

----------------------------------------------------------------------------
(* Counting alone: one daily batch, of extractions with several topics, on  *)
(* a processor whose taxonomy is any mapping earlier consolidations can     *)
(* have left and whose counts are an earlier day's table.                   *)

CountedTopics == {"A", "B"}

CountedReviews == SeqsUpTo(CountedTopics, MaxReviewTopics)

CountedExtractions == SeqsUpTo(CountedReviews, MaxReviews)

PriorCounts ==
    {EmptyMap, (<<3, 1>> :> ("A" :> 1)), (<<3, 1>> :> ("A" :> 2 @@ "C" :> 1))}

InitCount ==
    /\ topic_taxonomy \in Taxonomies
    /\ consolidated_topics = <<>>
    /\ daily_topic_counts \in PriorCounts
    /\ all_extractions = 0
    /\ state_file = NoFile
    /\ last = NoCall
    /\ ops = 0

CountBatch ==
    /\ ops < 1
    /\ \E date \in BatchDates, extractions \in CountedExtractions :
        \/ \E script \in BatchScripts(get_all_unique_topics(extractions)) :
               ProcessDailyBatch(date, extractions, TRUE, script)
        \/ ProcessDailyBatch(date, extractions, FALSE, Answering(<<>>))

SpecCount == InitCount /\ [][CountBatch]_vars

----------------------------------------------------------------------------
(* The two-day scenario: a fresh processor, day 1 with two reviews, day 2   *)
(* with one, then queries.  The oracle is a mock that puts "Delivery guy    *)
(* rude" and "Delivery partner impolite" under "Delivery partner rude": in  *)
(* every reply each of the two that was requested is a variant of that      *)
(* group (which may list more of the three names), and every other          *)
(* requested topic is a group of its own.                                   *)

GuyRude == "Delivery guy rude"
PartnerImpolite == "Delivery partner impolite"
PartnerRude == "Delivery partner rude"
FoodCold == "Food arrived cold"

Day1 == <<2, 29>>
Day2 == <<3, 1>>

ScenarioDocuments(unique_topics) ==
    LET merged == {GuyRude, PartnerImpolite}
        others == SelectSeq(unique_topics,
                            LAMBDA t : t \notin merged \cup {PartnerRude})
        alone == [i \in 1..Len(others) |-> OracleGroup(others[i], <<others[i]>>)]
        Group(V) == OracleGroup(PartnerRude,
                                SelectSeq(TopicOrder, LAMBDA t : t \in V))
    IN UNION {{<<Group(V)>> \o alone, alone \o <<Group(V)>>} :
              V \in {W \in SUBSET (merged \cup {PartnerRude}) :
                        Range(unique_topics) \cap merged \subseteq W}}

ScenarioScripts(all_topics) ==
    {Answering(g) : g \in ScenarioDocuments(SortedUnique(all_topics))}

ScenarioDay1 ==
    /\ ops = 0
    /\ \E extractions \in Reorderings(<<<<GuyRude>>, <<FoodCold>>>>) :
          \E script \in ScenarioScripts(get_all_unique_topics(extractions)) :
              ProcessDailyBatch(Day1, extractions, TRUE, script)

ScenarioDay2 ==
    /\ ops = 1
    /\ \E script \in ScenarioScripts(ExistingNames(consolidated_topics)
                                      \o <<PartnerImpolite>>) :
          ProcessDailyBatch(Day2, <<<<PartnerImpolite>>>>, TRUE, script)

ScenarioQuery == ops = 2 /\ Queries

NextScenario == ScenarioDay1 \/ ScenarioDay2 \/ ScenarioQuery

SpecScenario == Init /\ [][NextScenario]_vars

----------------------------------------------------------------------------
(* The trend table alone: one table built, as generate_reports builds it,   *)
(* from the processor's trend data of the last TREND_WINDOW_DAYS days, on   *)
(* a processor whose counts are any table that counting can have built.     *)

ReportDates == {<<2, 10>>, <<2, 17>>, <<2, 24>>}

ReportTables == UNION {[D -> DayCounts] : D \in SUBSET ReportDates}

ReportTargets == {<<3, 1>>, <<3, 2>>}

ReportDays == {13, 14, TREND_WINDOW_DAYS}

\* The orders in which a dictionary built from a set of topics can yield
\* its items.
ItemOrders(data) ==
    {[i \in 1..Len(order) |-> <<order[i], data[order[i]]>>] :
        order \in Reorderings(SelectSeq(TopicOrder, LAMBDA t : t \in DOMAIN data))}

InitReport ==
    /\ topic_taxonomy = EmptyMap
    /\ consolidated_topics = <<>>
    /\ daily_topic_counts \in ReportTables
    /\ all_extractions = 0
    /\ state_file = NoFile
    /\ last = NoCall
    /\ ops = 0

GenerateTrendTable(target_date, days) ==
    \E trend_data \in ItemOrders(get_trend_data(daily_topic_counts, target_date,
                                                 TREND_WINDOW_DAYS)) :
       \E df \in generate_trend_table(trend_data, target_date, days) :
          /\ last' = [op |-> "generate_trend_table", target_date |-> target_date,
                      days |-> days, trend_data |-> trend_data,
                      raised |-> df.raised, rows |-> df.rows]
          /\ ops' = ops + 1
          /\ UNCHANGED <<topic_taxonomy, consolidated_topics,
                         daily_topic_counts, all_extractions, state_file>>

Report ==
    /\ ops < 1
    /\ \E target_date \in ReportTargets, days \in ReportDays :
          GenerateTrendTable(target_date, days)

SpecReport == InitReport /\ [][Report]_vars

----------------------------------------------------------------------------
(* Saving and resuming: a fresh processor beside a state file that is       *)
(* missing, not JSON, a document an earlier run saved, or such a document   *)
(* without one of its keys.                                                 *)

ResumeDate == <<3, 1>>

ResumeExtractions == {<<<<"A">>>>, <<<<"A">>, <<"B">>>>}

\* The documents an earlier run saved: right after construction, and after
\* one daily batch.
SavedDocuments ==
    {StateDocument(<<>>, EmptyMap, EmptyMap, 0)}
    \cup {LET unique_topics == get_all_unique_topics(extractions)
              script == Answering(Merged("C", Range(unique_topics), unique_topics))
              r == process_daily_batch(EmptyMap, <<>>, EmptyMap, ResumeDate,
                                       extractions, TRUE, script)
          IN StateDocument(r.groups, r.tax, r.counts, Len(extractions)) :
          extractions \in ResumeExtractions}

StateKeys == {"consolidated_topics", "topic_taxonomy", "daily_topic_counts"}

Lacking(file, key) ==
    [file EXCEPT !.doc = SelectSeq(@, LAMBDA member : member[1] # key)]

StateFiles ==
    {NoFile, Unparseable} \cup SavedDocuments
    \cup {Lacking(file, key) : file \in SavedDocuments, key \in StateKeys}

ResumeScripts(all_topics) ==
    LET unique_topics == SortedUnique(all_topics) IN
    IF Len(unique_topics) <= 1 THEN {Answering(<<>>)}
    ELSE {[down |-> 1, reply |-> JsonReply(<<>>)]}
         \cup {Answering(Merged(name, M, unique_topics)) :
                  name \in Topics, M \in SUBSET Range(unique_topics) \ {{}}}

InitResume ==
    /\ topic_taxonomy = EmptyMap
    /\ consolidated_topics = <<>>
    /\ daily_topic_counts = EmptyMap
    /\ all_extractions = 0
    /\ state_file \in StateFiles
    /\ last = NoCall
    /\ ops = 0

\* BatchProcessor(): a new processor; the file stays.
Construct ==
    /\ topic_taxonomy' = EmptyMap
    /\ consolidated_topics' = <<>>
    /\ daily_topic_counts' = EmptyMap
    /\ all_extractions' = 0
    /\ last' = [op |-> "construct"]
    /\ ops' = ops + 1
    /\ UNCHANGED state_file

\* What main does after a report-only run's load_state returned: the trend
\* data of the target date, the trend table, the reports.
ReportOutcomes(counts, target_date) ==
    LET data == get_trend_data(counts, target_date, TREND_WINDOW_DAYS)
        frames == UNION {generate_trend_table(trend_data, target_date,
                                              TREND_WINDOW_DAYS) :
                            trend_data \in ItemOrders(data)}
    IN {[outcome |-> IF df.raised THEN "failed" ELSE "reported",
         rows |-> df.rows] : df \in frames}

\* main with --report-only: a new processor, load_state when the file
\* exists (an exception ends the run), otherwise a message and return.
ReportOnly(target_date) ==
    \E r \in {load_state(state_file, EmptyMap, <<>>, EmptyMap)} :
       \E run \in (IF ~state_file.exists
                   THEN {[outcome |-> "refused", rows |-> <<>>]}
                   ELSE IF r.raised
                   THEN {[outcome |-> "failed", rows |-> <<>>]}
                   ELSE ReportOutcomes(r.counts, target_date)) :
          /\ topic_taxonomy' = r.tax
          /\ consolidated_topics' = r.groups
          /\ daily_topic_counts' = r.counts
          /\ all_extractions' = 0
          /\ last' = [op |-> "report_only", target_date |-> target_date,
                      outcome |-> run.outcome, rows |-> run.rows]
          /\ ops' = ops + 1
          /\ UNCHANGED state_file

ResumeBatch ==
    /\ ops < MaxResumeOps
    /\ \E extractions \in ResumeExtractions :
        \/ \E script \in ResumeScripts(ExistingNames(consolidated_topics)
                                       \o get_all_unique_topics(extractions)) :
               ProcessDailyBatch(ResumeDate, extractions, TRUE, script)
        \/ ProcessDailyBatch(ResumeDate, extractions, FALSE, Answering(<<>>))

ResumeSave == ops < MaxResumeOps /\ SaveState

ResumeLoad == ops < MaxResumeOps /\ LoadState

ResumeConstruct == ops < MaxResumeOps /\ Construct

ResumeReport ==
    ops < MaxResumeOps /\ \E target_date \in ReportTargets : ReportOnly(target_date)

NextResume ==
    ResumeBatch \/ ResumeSave \/ ResumeLoad \/ ResumeConstruct \/ ResumeReport

SpecResume == InitResume /\ [][NextResume]_vars

----------------------------------------------------------------------------
(* Properties *)

IsBatch == last.op = "process_daily_batch"
IsConsolidate == last.op = "consolidate_topics"
IsIncremental == last.op = "incremental_consolidation"
IsTrend == last.op = "get_trend_data"

\* The variants a group list names.
Listed(groups) == UNION {Range(groups[i].variants) : i \in 1..Len(groups)}

GroupNames(groups) == {groups[i].canonical_name : i \in 1..Len(groups)}

\* C1: when the oracle call of a consolidation over two or more distinct
\* topics fails, the call returns one singleton group per distinct topic and
\* afterwards map_to_canonical(t) = t for every input topic t, whatever the
\* taxonomy held for t before.
C1_FallbackRecordsIdentity ==
    (IsBatch /\ last.outcome = "fallback") =>
        LET topics == last.existing_names \o last.new_topics IN
        /\ consolidated_topics = FallbackGroups(SortedUnique(topics))
        /\ \A t \in Range(topics) : map_to_canonical(topic_taxonomy, t) = t

\* C2: the fallback is taken only after the oracle was attempted on every
\* attempt of the retry budget, and the oracle is never attempted more than
\* MAX_RETRIES times in one consolidate_topics call.
C2_FallbackAfterRetryBudget ==
    IsConsolidate =>
        /\ last.calls <= MAX_RETRIES
        /\ last.outcome = "fallback" => last.calls = MAX_RETRIES

\* C3: a canonical name of a returned group is in truly_new exactly when it
\* is not an existing canonical name and a group of that name has a variant
\* among new_topics; truly_new holds nothing else.  With existing {A} and new
\* {B}: grouping A{A,B} gives no truly new name, grouping B{A,B} gives {B}.
C3_TrulyNewIff ==
    IsIncremental =>
        LET existing == Range(last.existing_names)
            new == Range(last.new_topics)
            groups == last.groups
            Qualifies(c) ==
                /\ c \notin existing
                /\ \E i \in 1..Len(groups) :
                      /\ groups[i].canonical_name = c
                      /\ Range(groups[i].variants) \cap new # {}
        IN /\ Range(last.truly_new) \subseteq GroupNames(groups)
           /\ \A c \in GroupNames(groups) :
                 c \in Range(last.truly_new) <=> Qualifies(c)
           /\ (last.existing_names = <<"A">> /\ last.new_topics = <<"B">>) =>
                 /\ groups = <<OracleGroup("A", <<"A", "B">>)>>
                       => last.truly_new = <<>>
                 /\ groups = <<OracleGroup("B", <<"A", "B">>)>>
                       => last.truly_new = <<"B">>

C3_Witness ==
    /\ IsIncremental
    /\ last.existing_names = <<"A">>
    /\ last.new_topics = <<"B">>
    /\ last.groups = <<OracleGroup("B", <<"A", "B">>)>>
    /\ last.truly_new = <<"B">>

\* C4: a returned group whose canonical name is newly invented and whose
\* variants are all existing canonical names is never reported in truly_new,
\* also when the day's new topics contain existing canonical names.
C4_RenameNeverTrulyNew ==
    (IsBatch /\ last.consolidated) =>
        LET existing == Range(last.existing_names)
            groups == consolidated_topics
            Named(c) == {i \in 1..Len(groups) : groups[i].canonical_name = c}
        IN \A c \in GroupNames(groups) :
              (/\ c \notin existing
               /\ \A i \in Named(c) :
                     /\ groups[i].variants # <<>>
                     /\ Range(groups[i].variants) \subseteq existing)
              => c \notin Range(last.truly_new)

\* C5: consolidate_topics on an input without topics returns no group, on an
\* input whose topics are all one string X returns the single group X with
\* variants [X] and category issue; in both cases the oracle is not called.
C5_ShortCircuit ==
    IsConsolidate =>
        /\ Range(last.topics) = {} =>
              (last.groups = <<>> /\ last.calls = 0)
        /\ \A X \in Topics :
              Range(last.topics) = {X} =>
                 /\ last.groups = <<[canonical_name |-> X, variants |-> <<X>>,
                                     category |-> "issue"]>>
                 /\ last.calls = 0

C5_Witness ==
    /\ IsConsolidate
    /\ last.topics = <<"B", "B">>
    /\ Len(last.groups) = 1
    /\ last.groups[1].canonical_name = "B"
    /\ last.calls = 0

\* C6: map_to_canonical(t) returns the stored canonical name of t when t has
\* an entry and t itself when it has none, and leaves the taxonomy as it was.
C6_MapToCanonical ==
    [][last'.op = "map_to_canonical" =>
          /\ topic_taxonomy' = topic_taxonomy
          /\ last'.topic \in DOMAIN topic_taxonomy
                => last'.ret = topic_taxonomy[last'.topic]
          /\ last'.topic \notin DOMAIN topic_taxonomy
                => last'.ret = last'.topic]_vars

C6_Witness ==
    /\ last.op = "map_to_canonical"
    /\ last.topic \in DOMAIN topic_taxonomy
    /\ last.ret # last.topic
    /\ \E t \in Topics : t \notin DOMAIN topic_taxonomy

\* C7: the canonical name of a mapped variant v changes only in a taxonomy
\* update whose groups list v: counting a batch, get_trend_data, save_state,
\* a short-circuited or failed consolidation and a consolidation whose groups
\* do not list v leave map_to_canonical(v) as it was.
C7_MappingStable ==
    [][\A v \in DOMAIN topic_taxonomy :
          LET updated == /\ last'.op = "process_daily_batch"
                         /\ last'.outcome = "ok"
                         /\ v \in Listed(consolidated_topics')
          IN (last'.op # "load_state" /\ ~updated) =>
                map_to_canonical(topic_taxonomy', v)
                    = map_to_canonical(topic_taxonomy, v)]_vars

\* C8: when one oracle document lists a variant in two groups, after the
\* update the variant maps to the canonical name of the later group; the
\* taxonomy maps every variant to one name.
LastListing(groups, v) ==
    CHOOSE i \in 1..Len(groups) :
        /\ v \in Range(groups[i].variants)
        /\ \A j \in (i + 1)..Len(groups) : v \notin Range(groups[j].variants)

C8_LaterGroupWins ==
    (IsConsolidate /\ last.outcome = "ok") =>
        /\ topic_taxonomy \in [DOMAIN topic_taxonomy -> Topics]
        /\ \A v \in Listed(last.sent) :
              /\ v \in DOMAIN topic_taxonomy
              /\ topic_taxonomy[v]
                    = last.sent[LastListing(last.sent, v)].canonical_name

C8_Witness ==
    /\ IsConsolidate
    /\ last.outcome = "ok"
    /\ Len(last.sent) = 2
    /\ "A" \in Range(last.sent[1].variants) \cap Range(last.sent[2].variants)
    /\ last.sent[1].canonical_name = "B"
    /\ last.sent[2].canonical_name = "C"
    /\ topic_taxonomy["A"] = "C"

\* The window of a query, read off the calendar: the date strings of the end
\* date's month and of the month before it (a window of at most 28 days)
\* that lie within days - 1 days before the end date.
Window(end_date, days) ==
    {s \in ({end_date[1] - 1, end_date[1]} \cap (1..12)) \X (1..31) :
        /\ s[2] <= DaysInMonth[s[1]]
        /\ Strptime(end_date) - (days - 1) <= Strptime(s)
        /\ Strptime(s) <= Strptime(end_date)}

\* C9: for days >= 1 every returned topic's inner mapping has exactly `days`
\* keys: the dates of [end_date - (days - 1), end_date] and no other.
C9_WindowDensity ==
    (IsTrend /\ last.days >= 1) =>
        \A topic \in DOMAIN last.ret :
            /\ DOMAIN last.ret[topic] = Window(last.end_date, last.days)
            /\ Cardinality(DOMAIN last.ret[topic]) = last.days

C9_Witness ==
    /\ IsTrend
    /\ last.end_date = <<3, 1>>
    /\ last.days = 3
    /\ "A" \in DOMAIN last.ret
    /\ DOMAIN last.ret["A"] = {<<2, 28>>, <<2, 29>>, <<3, 1>>}

\* C10: get_trend_data returns a topic exactly when it has a non-zero count
\* on a date of the window; each value is the stored count of that date and
\* topic, and 0 where none is stored, also for dates outside the history.
Stored(date, topic) ==
    IF date \in DOMAIN daily_topic_counts
       /\ topic \in DOMAIN daily_topic_counts[date]
    THEN daily_topic_counts[date][topic]
    ELSE 0

C10_TrendValues ==
    IsTrend =>
        LET window == Window(last.end_date, last.days) IN
        /\ DOMAIN last.ret =
              {t \in Topics : \E date \in window : Stored(date, t) # 0}
        /\ \A t \in DOMAIN last.ret :
              \A date \in window : last.ret[t][date] = Stored(date, t)

C10_Witness ==
    /\ IsTrend
    /\ last.end_date = <<3, 2>>
    /\ DOMAIN daily_topic_counts = {<<3, 1>>}
    /\ "A" \in DOMAIN last.ret
    /\ last.ret["A"][<<3, 2>>] = 0
    /\ last.ret["A"][<<3, 1>>] = 2
    /\ "B" \notin DOMAIN last.ret

\* The stored count of a date and topic in a count table, 0 when absent.
CountAt(counts, date, topic) ==
    IF date \in DOMAIN counts /\ topic \in DOMAIN counts[date]
    THEN counts[date][topic]
    ELSE 0

\* Every reordering of the extractions with every reordering of the topics
\* inside each of them.
Rearrangements(extractions) ==
    UNION {{q \in [1..Len(p) -> UNION {Reorderings(p[i]) : i \in 1..Len(p)}] :
               \A i \in 1..Len(p) : q[i] \in Reorderings(p[i])} :
           p \in Reorderings(extractions)}

\* C11: with the taxonomy as the batch uses it, counting any rearrangement
\* of the batch's extractions (their order, and the order of the topics
\* inside each) on the counts held before the batch gives the counts the
\* batch left.
C11_CommutativeCounting ==
    [][last'.op = "process_daily_batch" =>
          \A p \in Rearrangements(last'.extractions) :
              ReadDay(CountExtractions(daily_topic_counts, last'.date,
                                       topic_taxonomy', p), last'.date)
                  = daily_topic_counts']_vars

C11_Witness ==
    /\ IsBatch
    /\ last.extractions = <<<<"B", "A">>, <<"A">>>>
    /\ "A" \in DOMAIN topic_taxonomy /\ topic_taxonomy["A"] = "C"
    /\ "B" \notin DOMAIN topic_taxonomy
    /\ last.date = <<2, 29>>
    /\ daily_topic_counts[<<2, 29>>] = ("B" :> 1 @@ "C" :> 2)

\* The occurrences of a batch: the positions <<i, j>> of the j-th topic of
\* the i-th extraction.
Occurrences(extractions) ==
    {o \in (1..Len(extractions)) \X (1..(MaxReviewTopics + 1)) :
        o[2] <= Len(extractions[o[1]])}

SumOver(counts, date) ==
    CountAt(counts, date, "A") + CountAt(counts, date, "B")
        + CountAt(counts, date, "C")

\* C12: a batch for a date raises the count of every canonical name c on
\* that date by the number of occurrences of topic strings t in the batch
\* with map_to_canonical(t) = c, repetitions inside one extraction included,
\* so the date's counts grow in sum by the number of occurrences.
C12_OnePerOccurrence ==
    [][last'.op = "process_daily_batch" =>
          LET ex == last'.extractions
              date == last'.date
              Hits(c) == {o \in Occurrences(ex) :
                             map_to_canonical(topic_taxonomy', ex[o[1]][o[2]]) = c}
          IN /\ \A c \in Topics :
                   CountAt(daily_topic_counts', date, c)
                       = CountAt(daily_topic_counts, date, c)
                             + Cardinality(Hits(c))
             /\ SumOver(daily_topic_counts', date)
                   = SumOver(daily_topic_counts, date)
                         + Cardinality(Occurrences(ex))
             /\ DOMAIN daily_topic_counts'[date] \subseteq Topics]_vars

C12_Witness ==
    /\ IsBatch
    /\ last.extractions = <<<<"A", "A">>>>
    /\ last.date = <<3, 1>>
    /\ "A" \notin DOMAIN topic_taxonomy
    /\ daily_topic_counts[<<3, 1>>] = ("A" :> 4 @@ "C" :> 1)

\* C13: after day 1 with extractions ["Delivery guy rude"] and ["Food
\* arrived cold"] and day 2 with ["Delivery partner impolite"], under an
\* oracle that groups the two delivery labels under "Delivery partner rude",
\* get_trend_data(day2, 2) shows "Delivery partner rude" with 1 on day 1 and
\* 1 on day 2 and "Food arrived cold" with 1 on day 1 and 0 on day 2.
C13_EndToEnd ==
    (IsTrend /\ ops = 3 /\ last.end_date = Day2 /\ last.days = 2) =>
        /\ PartnerRude \in DOMAIN last.ret
        /\ last.ret[PartnerRude] = (Day1 :> 1 @@ Day2 :> 1)
        /\ FoodCold \in DOMAIN last.ret
        /\ last.ret[FoodCold] = (Day1 :> 1 @@ Day2 :> 0)

C13_Witness ==
    /\ IsTrend /\ ops = 3 /\ last.end_date = Day2 /\ last.days = 2
    /\ DOMAIN last.ret = {PartnerRude, FoodCold}
    /\ last.ret[PartnerRude][Day1] = 1
    /\ topic_taxonomy[GuyRude] = PartnerRude
    /\ topic_taxonomy[PartnerImpolite] = PartnerRude
    /\ Len(consolidated_topics) = 2

IsTable == last.op = "generate_trend_table"

\* The occurrences of a topic stored for the dates lo..hi days before the
\* target date, both included.
RECURSIVE StoredBetween(_, _, _, _)
StoredBetween(topic, target_date, hi, lo) ==
    IF lo > hi THEN 0
    ELSE CountAt(daily_topic_counts, Strftime(Strptime(target_date) - lo), topic)
             + StoredBetween(topic, target_date, hi, lo + 1)

\* C14: a row's Trend is "-" when the window has fewer than 14 days or the
\* topic has no occurrence in the last 7 days nor in the 7 days before them;
\* it is "NEW" exactly when the window has 14 days or more, the previous 7
\* days hold none and the last 7 some; it is a signed percentage exactly
\* when the window has 14 days or more and the previous 7 days hold some.
C14_TrendLabel ==
    (IsTable /\ ~last.raised) =>
        \A i \in 1..Len(last.rows) :
            LET row == last.rows[i]
                recent == StoredBetween(row.Topic, last.target_date, 6, 0)
                previous == StoredBetween(row.Topic, last.target_date, 13, 7)
            IN /\ (last.days < 14 \/ (recent = 0 /\ previous = 0))
                      => row.Trend.kind = "-"
               /\ row.Trend.kind = "NEW"
                      <=> (last.days >= 14 /\ previous = 0 /\ recent > 0)
               /\ row.Trend.kind = "pct"
                      <=> (last.days >= 14 /\ previous > 0)
               /\ row.Trend.kind = "pct" => row.Trend.sign \in {"+", "-"}

C14_Witness ==
    /\ IsTable /\ last.days = 14 /\ Len(last.rows) = 2
    /\ \E i, j \in 1..2 :
          /\ last.rows[i].Trend.kind = "NEW"
          /\ last.rows[j].Trend = [kind |-> "pct", sign |-> "-", tenths |-> 500]

\* The place of a topic among the items of the trend data.
Encounter(trend_data, topic) ==
    CHOOSE i \in 1..Len(trend_data) : trend_data[i][1] = topic

\* Every row's Total is the topic's stored occurrences over the window, and
\* the rows are in non-increasing order of Total.
TotalsDescending ==
    (IsTable /\ ~last.raised) =>
        /\ \A i \in 1..Len(last.rows) :
              last.rows[i].Total
                  = StoredBetween(last.rows[i].Topic, last.target_date,
                                  last.days - 1, 0)
        /\ \A i \in 1..(Len(last.rows) - 1) :
              last.rows[i].Total >= last.rows[i + 1].Total

\* C15: each row's Total is the sum of the topic's counts over the window
\* dates, the rows come in non-increasing order of Total, and rows of equal
\* Total come in the order the trend data yielded them.
C15_TotalStableSort ==
    /\ TotalsDescending
    /\ (IsTable /\ ~last.raised) =>
          \A i, j \in 1..Len(last.rows) :
              (i < j /\ last.rows[i].Total = last.rows[j].Total) =>
                  Encounter(last.trend_data, last.rows[i].Topic)
                      < Encounter(last.trend_data, last.rows[j].Topic)

\* C16: every stored count is a non-negative integer, and no operation on a
\* processor (process_daily_batch for any date, get_trend_data, save_state,
\* load_state) lowers or removes the count stored for a date and topic.
C16_CountsNeverDecrease ==
    [][last'.op \notin {"construct", "report_only"} =>
          \A d \in DOMAIN daily_topic_counts :
              \A t \in DOMAIN daily_topic_counts[d] :
                  /\ daily_topic_counts[d][t] \in Nat
                  /\ CountAt(daily_topic_counts', d, t)
                        >= daily_topic_counts[d][t]]_vars

\* C17: a batch for date D leaves the counts of every other date as they
\* were, under the names they were written under, also when D's
\* consolidation maps those names to another canonical name.
C17_OtherDatesUnchanged ==
    [][last'.op = "process_daily_batch" =>
          /\ DOMAIN daily_topic_counts'
                \subseteq DOMAIN daily_topic_counts \cup {last'.date}
          /\ \A d \in DOMAIN daily_topic_counts \ {last'.date} :
                /\ d \in DOMAIN daily_topic_counts'
                /\ daily_topic_counts'[d] = daily_topic_counts[d]]_vars

C17_Witness ==
    /\ IsBatch /\ last.date = <<3, 1>> /\ last.outcome = "ok"
    /\ DOMAIN daily_topic_counts = {<<2, 29>>, <<3, 1>>}
    /\ daily_topic_counts[<<2, 29>>] = ("A" :> 1)
    /\ daily_topic_counts[<<3, 1>>] = ("C" :> 1)
    /\ "A" \in DOMAIN topic_taxonomy /\ topic_taxonomy["A"] = "C"

\* C18: when a processor saves its state and a run then loads the file into
\* a newly constructed processor, the new processor's taxonomy, daily counts
\* and group list equal the saving processor's, and map_to_canonical and
\* get_trend_data answer on it as they did before the save.
C18_RoundTrip ==
    [][(last.op = "save_state" /\ last'.op = "report_only") =>
          /\ topic_taxonomy' = topic_taxonomy
          /\ daily_topic_counts' = daily_topic_counts
          /\ consolidated_topics' = consolidated_topics
          /\ \A t \in Topics :
                map_to_canonical(topic_taxonomy', t)
                    = map_to_canonical(topic_taxonomy, t)
          /\ \A end_date \in EndDates, days \in 1..MaxDays :
                get_trend_data(daily_topic_counts', end_date, days)
                    = get_trend_data(daily_topic_counts, end_date, days)]_vars

C18_Witness ==
    /\ last.op = "report_only" /\ last.outcome = "reported"
    /\ ops = 3
    /\ topic_taxonomy = ("A" :> "B" @@ "B" :> "B")
    /\ daily_topic_counts = (<<3, 1>> :> ("B" :> 2))
    /\ Len(consolidated_topics) = 1
    /\ state_file = StateDocument(consolidated_topics, topic_taxonomy,
                                   daily_topic_counts, 2)

\* A state file a resume cannot be served from: missing, not JSON, or a
\* document without the taxonomy, the counts or the group list.
Unusable(file) ==
    \/ ~file.exists
    \/ ~file.parses
    \/ \E key \in StateKeys : \A i \in 1..Len(file.doc) : file.doc[i][1] # key

\* C19: load_state on an unusable state file raises, and a report-only run
\* on one ends without a report (by an exception, or by the message that no
\* state was found); a newly constructed processor has an empty taxonomy,
\* empty counts and an empty group list.
C19_ResumeFailsWithoutState ==
    /\ (last.op = "load_state" /\ Unusable(state_file)) => last.raised
    /\ (last.op = "report_only" /\ Unusable(state_file))
          => last.outcome \in {"failed", "refused"}
    /\ last.op \in {"none", "construct"} =>
          /\ topic_taxonomy = EmptyMap
          /\ daily_topic_counts = EmptyMap
          /\ consolidated_topics = <<>>

\* C20: a batch that consolidates counts every occurrence under the name
\* the taxonomy gives its topic once the consolidation step is done: each
\* canonical name's count on the date grows by the occurrences that map to
\* it under the taxonomy the batch leaves.
C20_CountedAfterConsolidation ==
    [][(last'.op = "process_daily_batch" /\ last'.consolidated) =>
          \A c \in Topics :
              CountAt(daily_topic_counts', last'.date, c)
                  - CountAt(daily_topic_counts, last'.date, c)
                  = Cardinality({o \in Occurrences(last'.extractions) :
                        map_to_canonical(topic_taxonomy',
                            last'.extractions[o[1]][o[2]]) = c})]_vars

C20_Witness ==
    /\ IsBatch /\ ops = 1 /\ last.outcome = "ok"
    /\ last.extractions = <<<<"A">>, <<"B">>>>
    /\ topic_taxonomy = ("A" :> "C" @@ "B" :> "C")
    /\ daily_topic_counts[last.date] = ("C" :> 2)

\* C21: process_multiple_batches handles the files in ascending order of
\* their calendar dates whatever the order of the list, each day's batch is
\* consolidated and counted before the next day's begins (what a day leaves
\* holds no other day's later work), and each day's consolidation is given
\* as existing groups the group list the preceding day left.
C21_CalendarOrder ==
    last.op = "process_multiple_batches" =>
        LET days == last.days
            files == last.batch_files
        IN /\ Len(days) = Len(files)
           /\ {days[k].date : k \in 1..Len(days)}
                 = {files[i].date : i \in 1..Len(files)}
           /\ \A k \in 1..(Len(days) - 1) :
                 Strptime(days[k].date) < Strptime(days[k + 1].date)
           /\ \A k \in 1..Len(days) :
                 /\ days[k].existing
                       = IF k = 1 THEN <<>> ELSE days[k - 1].groups
                 /\ DOMAIN days[k].counts \subseteq {days[j].date : j \in 1..k}
                 /\ daily_topic_counts[days[k].date]
                       = days[k].counts[days[k].date]
           /\ days # <<>> => consolidated_topics = days[Len(days)].groups

C21_Witness ==
    /\ last.op = "process_multiple_batches"
    /\ Len(last.batch_files) = 3
    /\ last.batch_files[1].date = <<10, 1>>
    /\ last.batch_files[2].date = <<2, 29>>
    /\ last.batch_files[3].date = <<9, 30>>
    /\ last.days[1].date = <<2, 29>>
    /\ last.days[3].date = <<10, 1>>
    /\ last.days[3].consolidated
    /\ last.days[3].existing # <<>>
    /\ last.days[3].existing # last.days[3].groups

\* C22: within a run no process_daily_batch or consolidate_topics call,
\* whether it succeeds, short-circuits or falls back, removes a variant from
\* the taxonomy: entries are only added or overwritten.
C22_TaxonomyNeverShrinks ==
    [][DOMAIN topic_taxonomy \subseteq DOMAIN topic_taxonomy']_vars

C22_Witness ==
    /\ ops = 2
    /\ last.op = "consolidate_topics"
    /\ last.outcome = "fallback"
    /\ "A" \in DOMAIN topic_taxonomy
    /\ "A" \notin Range(last.topics)

\* C23: a date is a key of the daily topic counts only if at least one
\* topic occurrence was recorded for it; a batch without extracted topics
\* and a get_trend_data query leave no entry behind.
C23_KeysOnlyWhenRecorded ==
    \A date \in DOMAIN daily_topic_counts :
        \E topic \in DOMAIN daily_topic_counts[date] :
            daily_topic_counts[date][topic] >= 1

IsExtract == last.op = "extract_topics"

Readable(reply) == reply.kind = "json" /\ reply.wrap # "other"

EntryTopics(entries) == [j \in 1..Len(entries) |-> entries[j].topics]

\* The records of every request, one request per sub-batch with a text to
\* send, make up the returned list: no sub-batch is retried or abandons the
\* ones after it.
EverySubBatchAsked ==
    /\ Len(last.requests) = Requests(last.reviews, 0, last.batch_size)
    /\ EntryTopics(last.extractions)
          = Flatten([k \in 1..Len(last.requests) |->
                        EntryTopics(last.requests[k].produced)])

\* C24: when the labeling oracle returns fewer entries than reviews were
\* sent, extract_topics keeps exactly the returned entries and goes on with
\* the following sub-batches without retry or error; and the records
\* produced for a sub-batch are never more than the reviews in it.
C24_ShortReplyKept ==
    IsExtract =>
        /\ EverySubBatchAsked
        /\ \A k \in 1..Len(last.requests) :
              LET q == last.requests[k] IN
              /\ Readable(q.reply) /\ Len(q.reply.entries) < Len(q.review_texts)
                    => EntryTopics(q.produced) = EntryTopics(q.reply.entries)
              /\ Len(q.produced) <= Len(q.batch)

\* C28: every record extract_topics returns carries the review_id, the
\* content, the date and the score of the review whose text stood at the
\* record's position in the list of texts sent to the labeling oracle, also
\* when reviews of the sub-batch were skipped for their empty content.
C28_RecordOfItsReview ==
    IsExtract =>
        \A k \in 1..Len(last.requests) :
            LET q == last.requests[k] IN
            \A j \in 1..Len(q.produced) :
                j <= Len(q.review_texts) =>
                    /\ q.produced[j].annotated
                    /\ q.produced[j].review_id = q.review_texts[j].review_id
                    /\ q.produced[j].review_content = q.review_texts[j].content
                    /\ q.produced[j].review_date = q.review_texts[j].date
                    /\ q.produced[j].review_score = q.review_texts[j].score

\* C25: after any sequence of consolidations map_to_canonical is idempotent
\* and lands on a current topic: every variant with a taxonomy entry maps
\* to a name that maps to itself and that is the canonical_name of a group
\* of the processor's consolidated group list.
C25_MapsToCurrentTopic ==
    \A v \in DOMAIN topic_taxonomy :
        LET name == map_to_canonical(topic_taxonomy, v) IN
        /\ map_to_canonical(topic_taxonomy, name) = name
        /\ name \in GroupNames(consolidated_topics)

\* C26: the taxonomy update of one consolidation is all-or-nothing: when
\* consolidate_topics returns the fallback singleton groups, for a failed
\* call or for a response rejected as malformed, the taxonomy holds no
\* mapping taken from that response: it is what it was before the call.
C26_AllOrNothing ==
    [][(last'.op = "consolidate_topics" /\ last'.outcome = "fallback")
          => topic_taxonomy' = topic_taxonomy]_vars

\* C27: report generation does not fail on an empty window: when
\* get_trend_data returns no topic, generate_trend_table returns an empty
\* table without raising.
C27_EmptyWindowReported ==
    IsTable /\ last.trend_data = <<>> => ~last.raised /\ last.rows = <<>>

====
